---- MODULE Spec2Model ----
(***************************************************************************)
(* climatecom: a command-line client of the Climate FieldView REST API.    *)
(*                                                                         *)
(* One process run executes one command: it reads the configuration store, *)
(* issues at most one HTTP request, and renders the decoded body as JSON,  *)
(* as a table or as labelled fields.  The configuration store outlives the *)
(* process and is shared by successive runs.                               *)
(*                                                                         *)
(* Text is modelled by TLA+ strings.  Colours (chalk) and the spinner      *)
(* (ora) do not change the text and are left out; the three non-ASCII      *)
(* glyphs of the source are written in ASCII: the check mark as "v", the   *)
(* cross as "x" and the box-drawing rule as "-".                           *)
(***************************************************************************)
EXTENDS Integers, Sequences, FiniteSets, TLC

VARIABLES
    config,     \* the persisted settings (conf store): apiKey, baseUrl
    pc,         \* "idle" | "awaiting" | "exited": position of the process
    cmd,        \* the command line of the current run
    requests,   \* HTTP requests issued in the current run, in order
    response,   \* how the awaited request ended
    thrown,     \* the error the API client threw to the command layer
    tableArg,   \* the data printTable was called with
    tableCols,  \* the column spec printTable was called with
    stdout,     \* one entry per console.log call
    stderr,     \* one entry per console.error call
    exitCode    \* NoExit while running, else the process's exit status

vars == <<config, pc, cmd, requests, response, thrown, tableArg, tableCols, stdout, stderr,
          exitCode>>

-----------------------------------------------------------------------------
(* Bounds of the model *)

\* Longest array of records a response body carries.
MaxRecs == 2

\* exitCode of a process that has not terminated.
NoExit == 0 - 1

-----------------------------------------------------------------------------
(* JavaScript values.  A decoded JSON value is a tagged record; a number   *)
(* is n + f/100 with 0 <= f < 100 (two decimals are all the model keeps);  *)
(* an object is the sequence of its entries in insertion order.            *)

Undefined == [t |-> "undef"]
JNull == [t |-> "null"]
JNaN == [t |-> "nan"]
JStr(s) == [t |-> "str", s |-> s]
JNum(n, f) == [t |-> "num", n |-> n, f |-> f]
JInt(n) == JNum(n, 0)
JArr(a) == [t |-> "arr", a |-> a]
JObj(o) == [t |-> "obj", o |-> o]
E(k, v) == [k |-> k, v |-> v]

HasKey(obj, key) == \E i \in 1..Len(obj.o) : obj.o[i].k = key

Lookup(obj, key) == obj.o[CHOOSE i \in 1..Len(obj.o) : obj.o[i].k = key].v

\* v.key and v?.key throw on null and undefined; CanRead is their guard.
CanRead(v) == v.t \notin {"null", "undef"}

\* v[key] for a key that is no built-in property of strings, numbers or arrays.
GetProp(v, key) ==
    IF v.t = "obj" /\ HasKey(v, key) THEN Lookup(v, key) ELSE Undefined

\* ToBoolean: what `||`, `?:`, `!` and `&&` test.
Truthy(v) ==
    CASE v.t \in {"undef", "null", "nan"} -> FALSE
      [] v.t = "str" -> v.s # ""
      [] v.t = "num" -> ~(v.n = 0 /\ v.f = 0)
      [] OTHER -> TRUE

Digits == <<"0", "1", "2", "3", "4", "5", "6", "7", "8", "9">>

TwoDigits(f) == Digits[(f \div 10) + 1] \o Digits[(f % 10) + 1]

\* Number.prototype.toString
NumText(v) ==
    IF v.f = 0 THEN ToString(v.n)
    ELSE IF v.f % 10 = 0 THEN ToString(v.n) \o "." \o Digits[(v.f \div 10) + 1]
    ELSE ToString(v.n) \o "." \o TwoDigits(v.f)

\* Number.prototype.toFixed(2)
ToFixed2(v) == ToString(v.n) \o "." \o TwoDigits(v.f)

RECURSIVE JSString(_)
RECURSIVE JoinComma(_, _)
\* Array.prototype.join(","): null and undefined elements give the empty string.
JoinComma(a, i) ==
    IF i > Len(a) THEN ""
    ELSE (IF a[i].t \in {"null", "undef"} THEN "" ELSE JSString(a[i]))
         \o (IF i < Len(a) THEN "," ELSE "")
         \o JoinComma(a, i + 1)

\* String(v)
JSString(v) ==
    CASE v.t = "undef" -> "undefined"
      [] v.t = "null" -> "null"
      [] v.t = "nan" -> "NaN"
      [] v.t = "str" -> v.s
      [] v.t = "num" -> NumText(v)
      [] v.t = "arr" -> JoinComma(v.a, 1)
      [] OTHER -> "[object Object]"

Quote(s) == "\"" \o s \o "\""

RECURSIVE Stringify(_, _, _)
RECURSIVE StringifyItems(_, _, _, _, _)
\* The members of an array (isObj = FALSE) or object, from the i-th on.
StringifyItems(items, isObj, i, gap, ind) ==
    IF i > Len(items) THEN ""
    ELSE (IF gap = "" THEN "" ELSE "\n" \o ind \o gap)
         \o (IF isObj
             THEN Quote(items[i].k) \o (IF gap = "" THEN ":" ELSE ": ")
                  \o Stringify(items[i].v, gap, ind \o gap)
             ELSE Stringify(items[i], gap, ind \o gap))
         \o (IF i < Len(items) THEN "," ELSE "")
         \o StringifyItems(items, isObj, i + 1, gap, ind)

\* JSON.stringify(v, null, gap) at indentation ind; gap = "" is the compact
\* form.  The strings of the model hold no character JSON escapes.
Stringify(v, gap, ind) ==
    CASE v.t = "undef" -> "undefined"
      [] v.t \in {"null", "nan"} -> "null"
      [] v.t = "str" -> Quote(v.s)
      [] v.t = "num" -> NumText(v)
      [] v.t = "arr" ->
            IF v.a = <<>> THEN "[]"
            ELSE "[" \o StringifyItems(v.a, FALSE, 1, gap, ind)
                 \o (IF gap = "" THEN "" ELSE "\n" \o ind) \o "]"
      [] OTHER ->
            IF v.o = <<>> THEN "{}"
            ELSE "{" \o StringifyItems(v.o, TRUE, 1, gap, ind)
                 \o (IF gap = "" THEN "" ELSE "\n" \o ind) \o "}"

-----------------------------------------------------------------------------
(* parseInt and parseFloat *)

IsDigit(c) == \E i \in 1..10 : Digits[i] = c

DigitVal(c) == (CHOOSE i \in 1..10 : Digits[i] = c) - 1

HexDigits == <<"0", "1", "2", "3", "4", "5", "6", "7", "8", "9",
               "a", "b", "c", "d", "e", "f">>

IsHexDigit(c) == \E i \in 1..16 : HexDigits[i] = c

HexVal(c) == (CHOOSE i \in 1..16 : HexDigits[i] = c) - 1

Rest(s, i) == SubSeq(s, i, Len(s))

RECURSIVE TrimStart(_)
TrimStart(s) == IF Len(s) > 0 /\ SubSeq(s, 1, 1) = " " THEN TrimStart(Rest(s, 2)) ELSE s

\* Number of leading characters of s that are digits of the radix.
RECURSIVE DigitRun(_, _)
DigitRun(s, hex) ==
    IF Len(s) > 0 /\ (IF hex THEN IsHexDigit(SubSeq(s, 1, 1)) ELSE IsDigit(SubSeq(s, 1, 1)))
    THEN 1 + DigitRun(Rest(s, 2), hex)
    ELSE 0

\* Value of a string of digits of the radix.
RECURSIVE DigitsVal(_, _, _)
DigitsVal(s, radix, acc) ==
    IF Len(s) = 0 THEN acc
    ELSE DigitsVal(Rest(s, 2), radix,
                   acc * radix + (IF radix = 16 THEN HexVal(SubSeq(s, 1, 1))
                                  ELSE DigitVal(SubSeq(s, 1, 1))))

\* parseInt(s): leading blanks, a sign, a 0x prefix, then the longest run of
\* digits; NaN when there is none.
ParseInt(s) ==
    LET t == TrimStart(s)
        neg == Len(t) > 0 /\ SubSeq(t, 1, 1) = "-"
        u == IF Len(t) > 0 /\ SubSeq(t, 1, 1) \in {"-", "+"} THEN Rest(t, 2) ELSE t
        hex == Len(u) >= 2 /\ SubSeq(u, 1, 2) \in {"0x", "0X"}
        w == IF hex THEN Rest(u, 3) ELSE u
        k == DigitRun(w, hex)
        mag == DigitsVal(SubSeq(w, 1, k), IF hex THEN 16 ELSE 10, 0)
    IN  IF k = 0 THEN JNaN ELSE JInt(IF neg THEN 0 - mag ELSE mag)

\* parseFloat(s) for an unsigned decimal: digits, then "." and digits, of
\* which the model keeps two; NaN when no digit leads.
ParseFloat(s) ==
    LET t == TrimStart(s)
        k == DigitRun(t, FALSE)
        r == Rest(t, k + 1)
        dot == Len(r) > 0 /\ SubSeq(r, 1, 1) = "."
        fr == IF dot THEN Rest(r, 2) ELSE ""
        m == DigitRun(fr, FALSE)
        d1 == IF m >= 1 THEN DigitVal(SubSeq(fr, 1, 1)) ELSE 0
        d2 == IF m >= 2 THEN DigitVal(SubSeq(fr, 2, 2)) ELSE 0
    IN  IF k = 0 /\ ~(dot /\ m > 0) THEN JNaN
        ELSE JNum(DigitsVal(SubSeq(t, 1, k), 10, 0), d1 * 10 + d2)

-----------------------------------------------------------------------------
(* Configuration store (config.js) *)

DefaultBaseUrl == "https://platform.climate.com"

\* The schema's defaults: what a fresh store holds.
DefaultConfig == [apiKey |-> "", baseUrl |-> DefaultBaseUrl]

getConfig(key) == config[key]

setConfig(key, value) == [config EXCEPT ![key] = value]

\* isConfigured that finds a key in every store.
isConfigured_Always == TRUE

isConfigured == getConfig("apiKey") # ""

-----------------------------------------------------------------------------
(* API client (api.js) *)

BASE_URL == "https://platform.climate.com"

\* Error objects.  oid tells objects apart: every error the service layer
\* (axios) rejects with has oid >= 1, an error made by `new Error` or raised
\* by the runtime has oid 0.
NoError == [oid |-> 0 - 1, message |-> "", hasResponse |-> FALSE, status |-> 0,
            data |-> Undefined, hasRequest |-> FALSE]

NewError(msg) == [oid |-> 0, message |-> msg, hasResponse |-> FALSE, status |-> 0,
                  data |-> Undefined, hasRequest |-> FALSE]

\* `${status}` of an integer status
StatusText(status) == ToString(status)

\* ApiErrorDetail that looks at the error field before the message field.
ApiErrorDetail_ErrorFirst(data) ==
    LET message == IF CanRead(data) THEN GetProp(data, "message") ELSE Undefined
        error == IF CanRead(data) THEN GetProp(data, "error") ELSE Undefined
    IN  IF Truthy(error) THEN JSString(error)
        ELSE IF Truthy(message) THEN JSString(message)
        ELSE Stringify(data, "", "")

\* data?.message || data?.error || JSON.stringify(data)
ApiErrorDetail(data) ==
    LET message == IF CanRead(data) THEN GetProp(data, "message") ELSE Undefined
        error == IF CanRead(data) THEN GetProp(data, "error") ELSE Undefined
    IN  IF Truthy(message) THEN JSString(message)
        ELSE IF Truthy(error) THEN JSString(error)
        ELSE Stringify(data, "", "")

\* handleApiError that tests error.request before error.response.
handleApiError_RequestFirst(error) ==
    IF error.hasRequest
    THEN NewError("No response from Climate FieldView API. Check your internet connection.")
    ELSE IF error.hasResponse
    THEN CASE error.status = 401 -> NewError("Authentication failed. Check your API key.")
           [] error.status = 403 -> NewError("Access forbidden. Check your API permissions.")
           [] error.status = 404 -> NewError("Resource not found.")
           [] error.status = 429 -> NewError("Rate limit exceeded. Please wait before retrying.")
           [] OTHER -> NewError("API Error (" \o StatusText(error.status) \o "): "
                                \o ApiErrorDetail(error.data))
    ELSE error

\* handleApiError always throws; its value here is the error it throws.
handleApiError(error) ==
    IF error.hasResponse
    THEN CASE error.status = 401 -> NewError("Authentication failed. Check your API key.")
           [] error.status = 403 -> NewError("Access forbidden. Check your API permissions.")
           [] error.status = 404 -> NewError("Resource not found.")
           [] error.status = 429 -> NewError("Rate limit exceeded. Please wait before retrying.")
           [] OTHER -> NewError("API Error (" \o StatusText(error.status) \o "): "
                                \o ApiErrorDetail(error.data))
    ELSE IF error.hasRequest
    THEN NewError("No response from Climate FieldView API. Check your internet connection.")
    ELSE error

\* A client that takes its target from the stored baseUrl setting.
getClient_StoredBaseUrl ==
    [baseURL |-> getConfig("baseUrl"),
     headers |-> [Authorization |-> "Bearer " \o getConfig("apiKey"),
                  Accept |-> "application/json",
                  ContentType |-> "application/json"]]

\* axios.create({baseURL, headers}) of getClient
getClient ==
    [baseURL |-> BASE_URL,
     headers |-> [Authorization |-> "Bearer " \o getConfig("apiKey"),
                  Accept |-> "application/json",
                  ContentType |-> "application/json"]]

ListPath(group) ==
    CASE group = "fields" -> "/v4/fields"
      [] group = "farms" -> "/v4/farms"
      [] group = "boundaries" -> "/v4/boundaries"
      [] group = "harvest" -> "/v4/activitySummaries/harvest"
      [] group = "planting" -> "/v4/activitySummaries/planting"

\* The request of listFields, listFarms, listBoundaries, listHarvestActivities
\* and listPlantingActivities: the destructuring default 50 replaces only an
\* undefined limit.
ListRequest(group, limit) ==
    [method |-> "GET", baseURL |-> getClient.baseURL, headers |-> getClient.headers,
     url |-> ListPath(group),
     params |-> JObj(<<E("limit", IF limit.t = "undef" THEN JInt(50) ELSE limit)>>),
     data |-> Undefined]

\* The request of getField, getFarm, getBoundary, getHarvestActivity and
\* getPlantingActivity.
GetRequest(group, id) ==
    [method |-> "GET", baseURL |-> getClient.baseURL, headers |-> getClient.headers,
     url |-> ListPath(group) \o "/" \o id,
     params |-> Undefined,
     data |-> Undefined]

\* The request of createField: acres and boundary are spread in only when truthy.
CreateRequest(name, acres, boundary) ==
    [method |-> "POST", baseURL |-> getClient.baseURL, headers |-> getClient.headers,
     url |-> "/v4/fields",
     params |-> Undefined,
     data |-> JObj(<<E("name", JStr(name))>>
                   \o (IF Truthy(acres) THEN <<E("acres", acres)>> ELSE <<>>)
                   \o (IF Truthy(boundary) THEN <<E("boundary", boundary)>> ELSE <<>>))]

-----------------------------------------------------------------------------
(* Renderer (index.js).  A step that may throw yields [ok, text]: the text *)
(* it produced, or the message of the TypeError the runtime (V8) raised.   *)

Ok(text) == [ok |-> TRUE, text |-> text]
Throw(msg) == [ok |-> FALSE, text |-> msg]

Min(a, b) == IF a < b THEN a ELSE b
Max(a, b) == IF a > b THEN a ELSE b

\* s.substring(0, n)
Substring0(s, n) == SubSeq(s, 1, Min(n, Len(s)))

\* s.padEnd(w)
RECURSIVE padEnd(_, _)
padEnd(s, w) == IF Len(s) >= w THEN s ELSE padEnd(s \o " ", w)

\* c.repeat(n)
RECURSIVE repeat(_, _)
repeat(c, n) == IF n <= 0 THEN "" ELSE c \o repeat(c, n - 1)

printSuccess(message) == "v " \o message

printError(message) == "x " \o message

\* The only timestamp the model's records carry, and its en-US rendering in UTC.
SampleTime == "2024-05-01T12:00:00Z"

\* new Date(v).toLocaleDateString(): a number is epoch milliseconds (the
\* model's numbers all fall on the first day), any unparsable string is invalid.
toLocaleDateString(v) ==
    CASE v.t = "str" /\ v.s = SampleTime -> "5/1/2024"
      [] v.t = "num" -> "1/1/1970"
      [] OTHER -> "Invalid Date"

\* new Date(v).toLocaleString()
toLocaleString(v) ==
    CASE v.t = "str" /\ v.s = SampleTime -> "5/1/2024, 12:00:00 PM"
      [] v.t = "num" -> "1/1/1970, 12:00:00 AM"
      [] OTHER -> "Invalid Date"

\* v.toFixed(2) on an arbitrary value
CallToFixed(v, what) ==
    CASE v.t = "num" -> Ok(ToFixed2(v))
      [] v.t = "nan" -> Ok("NaN")
      [] v.t \in {"null", "undef"} ->
            Throw("Cannot read properties of " \o JSString(v) \o " (reading 'toFixed')")
      [] OTHER -> Throw(what \o ".toFixed is not a function")

\* The column formatters of the list commands, by name:
\*   id     (v) => v ? String(v).substring(0, 16) : 'N/A'
\*   or     (v) => v || 'N/A'
\*   fixed  (v) => v !== undefined ? v.toFixed(2) : 'N/A'
\*   count  (v) => v !== undefined ? String(v) : 'N/A'
\*   date   (v) => v ? new Date(v).toLocaleDateString() : 'N/A'
\* each followed by printTable's String(...).
Format(fmt, v) ==
    CASE fmt = "id" -> Ok(IF Truthy(v) THEN Substring0(JSString(v), 16) ELSE "N/A")
      [] fmt = "or" -> Ok(IF Truthy(v) THEN JSString(v) ELSE "N/A")
      [] fmt = "fixed" -> IF v.t # "undef" THEN CallToFixed(v, "v") ELSE Ok("N/A")
      [] fmt = "count" -> Ok(IF v.t # "undef" THEN JSString(v) ELSE "N/A")
      [] fmt = "date" -> Ok(IF Truthy(v) THEN toLocaleDateString(v) ELSE "N/A")

Col(key, label, format) == [key |-> key, label |-> label, format |-> format]

\* The column specs the five list commands pass to printTable.
Columns(group) ==
    CASE group = "fields" ->
            <<Col("id", "ID", "id"), Col("name", "Name", "or"),
              Col("acres", "Acres", "fixed"), Col("farmName", "Farm", "or")>>
      [] group = "farms" ->
            <<Col("id", "ID", "id"), Col("name", "Name", "or"),
              Col("fieldCount", "Fields", "count")>>
      [] group = "boundaries" ->
            <<Col("id", "ID", "id"), Col("fieldName", "Field", "or"),
              Col("acres", "Acres", "fixed")>>
      [] OTHER ->
            <<Col("id", "ID", "id"), Col("fieldName", "Field", "or"),
              Col("crop", "Crop", "or"), Col("startTime", "Start", "date"),
              Col("area", "Area (ac)", "fixed")>>

\* String(col.format ? col.format(row[col.key], row) : (row[col.key] ?? ''))
CellValue(col, row) ==
    IF ~CanRead(row)
    THEN Throw("Cannot read properties of " \o JSString(row)
               \o " (reading '" \o col.key \o "')")
    ELSE IF col.format # "none" THEN Format(col.format, GetProp(row, col.key))
    ELSE Ok(IF GetProp(row, col.key).t \in {"null", "undef"} THEN ""
            ELSE JSString(GetProp(row, col.key)))

\* The first pass of printTable visits the cells column by column, row by
\* row: the k-th cell visited, k = 0 .. Len(columns) * Len(rows) - 1.
CellAt(rows, columns, k) ==
    CellValue(columns[(k \div Len(rows)) + 1], rows[(k % Len(rows)) + 1])

\* The cell whose computation throws first.
FirstThrow(rows, columns) ==
    LET bad == {k \in 0..(Len(columns) * Len(rows) - 1) : ~CellAt(rows, columns, k).ok}
    IN  IF bad = {} THEN Ok("")
        ELSE CellAt(rows, columns, CHOOSE k \in bad : \A j \in bad : k <= j)

RECURSIVE MaxCellLen(_, _, _)
MaxCellLen(rows, col, i) ==
    IF i > Len(rows) THEN 0
    ELSE Max(Len(CellValue(col, rows[i]).text), MaxCellLen(rows, col, i + 1))

\* The widths without the cap of 40.
Width_NoCap(rows, col) == Max(Len(col.label), MaxCellLen(rows, col, 1))

\* widths[col.key]; the keys of a column spec are distinct.
Width(rows, col) == Min(Max(Len(col.label), MaxCellLen(rows, col, 1)), 40)

\* parts.join('  ') from the i-th part on
RECURSIVE Join2(_, _)
Join2(parts, i) ==
    IF i > Len(parts) THEN ""
    ELSE parts[i] \o (IF i < Len(parts) THEN "  " ELSE "") \o Join2(parts, i + 1)

HeaderLine(rows, columns) ==
    Join2([c \in 1..Len(columns) |->
              padEnd(columns[c].label, Width(rows, columns[c]))], 1)

RowLine(rows, columns, row) ==
    Join2([c \in 1..Len(columns) |->
              padEnd(Substring0(CellValue(columns[c], row).text, Width(rows, columns[c])),
                     Width(rows, columns[c]))], 1)

\* What printTable(data, columns) writes with console.log, and the error it
\* throws ("" when it returns).
printTable(data, columns) ==
    LET first == FirstThrow(data.a, columns)
        header == HeaderLine(data.a, columns)
    IN  IF ~Truthy(data) \/ (data.t = "arr" /\ Len(data.a) = 0)
        THEN [lines |-> <<"No results found.">>, err |-> ""]
        ELSE IF data.t # "arr"
        THEN [lines |-> <<>>, err |-> "data.forEach is not a function"]
        ELSE IF ~first.ok
        THEN [lines |-> <<>>, err |-> first.text]
        ELSE [lines |-> <<header, repeat("-", Len(header))>>
                        \o [i \in 1..Len(data.a) |-> RowLine(data.a, columns, data.a[i])]
                        \o <<"\n" \o ToString(Len(data.a)) \o " result(s)">>,
              err |-> ""]

\* printJson without the indentation argument.
printJson_Compact(data) == Stringify(data, "", "")

\* JSON.stringify(data, null, 2)
printJson(data) == Stringify(data, "  ", "")

\* ExtractRecords that takes an empty collection for a missing one.
ExtractRecords_SkipEmpty(data) ==
    LET full(v) == Truthy(v) /\ ~(v.t = "arr" /\ v.a = <<>>)
    IN  IF ~CanRead(data)
        THEN Throw("Cannot read properties of " \o JSString(data) \o " (reading 'results')")
        ELSE [ok |-> TRUE,
              value |-> IF full(GetProp(data, "results")) THEN GetProp(data, "results")
                        ELSE IF full(GetProp(data, "data")) THEN GetProp(data, "data")
                        ELSE IF data.t = "arr" THEN data
                        ELSE JArr(<<data>>)]

\* data.results || data.data || (Array.isArray(data) ? data : [data])
ExtractRecords(data) ==
    IF ~CanRead(data)
    THEN Throw("Cannot read properties of " \o JSString(data) \o " (reading 'results')")
    ELSE [ok |-> TRUE,
          value |-> IF Truthy(GetProp(data, "results")) THEN GetProp(data, "results")
                    ELSE IF Truthy(GetProp(data, "data")) THEN GetProp(data, "data")
                    ELSE IF data.t = "arr" THEN data
                    ELSE JArr(<<data>>)]

-----------------------------------------------------------------------------
(* Command layer (index.js) *)

\* How console.log writes an argument after the first: a string as it is, a
\* number by its digits.  (No record of the model carries an array or an
\* object under a key the get commands print.)
LogArg(v) == IF v.t = "str" THEN v.s ELSE JSString(v)

\* console.log(label, value)
Labelled(label, value) == Ok(label \o " " \o value)

\* obj.key || fallback, as console.log or chalk writes it
PropOr(obj, key, fallback) ==
    IF ~CanRead(obj)
    THEN Throw("Cannot read properties of " \o JSString(obj) \o " (reading '" \o key \o "')")
    ELSE Labelled("", IF Truthy(GetProp(obj, key)) THEN LogArg(GetProp(obj, key)) ELSE fallback)

\* console.log(label, step) where computing the value may throw
LabelledStep(label, step) == IF step.ok THEN Ok(label \o step.text) ELSE step

\* obj.key !== undefined ? `${obj.key.toFixed(2)} acres` : 'N/A'
AcresText(obj, var, key) ==
    IF ~CanRead(obj)
    THEN Throw("Cannot read properties of " \o JSString(obj) \o " (reading '" \o key \o "')")
    ELSE IF GetProp(obj, key).t = "undef" THEN Ok(" N/A")
    ELSE LET r == CallToFixed(GetProp(obj, key), var \o "." \o key)
         IN  IF r.ok THEN Ok(" " \o r.text \o " acres") ELSE r

\* The console.log calls of a get command after the --json test, in order.
GetSteps(group, obj, id) ==
    CASE group = "fields" ->
            <<Ok("\nField Details\n"),
              LabelledStep("ID:    ", PropOr(obj, "id", id)),
              LabelledStep("Name:  ", PropOr(obj, "name", "N/A")),
              LabelledStep("Acres: ", AcresText(obj, "field", "acres")),
              LabelledStep("Farm:  ", PropOr(obj, "farmName", "N/A")),
              Ok("")>>
      [] group = "farms" ->
            <<Ok("\nFarm Details\n"),
              LabelledStep("ID:     ", PropOr(obj, "id", id)),
              LabelledStep("Name:   ", PropOr(obj, "name", "N/A")),
              LabelledStep("Fields: ",
                  IF ~CanRead(obj) THEN PropOr(obj, "fieldCount", "")
                  ELSE Labelled("", IF GetProp(obj, "fieldCount").t # "undef"
                                    THEN JSString(GetProp(obj, "fieldCount")) ELSE "N/A")),
              Ok("")>>
      [] group = "boundaries" ->
            <<Ok("\nBoundary Details\n"),
              LabelledStep("ID:    ", PropOr(obj, "id", id)),
              LabelledStep("Field: ", PropOr(obj, "fieldName", "N/A")),
              LabelledStep("Acres: ", AcresText(obj, "boundary", "acres")),
              Ok("")>>
      [] OTHER ->
            <<Ok(IF group = "harvest" THEN "\nHarvest Activity\n" ELSE "\nPlanting Activity\n"),
              LabelledStep("ID:    ", PropOr(obj, "id", id)),
              LabelledStep("Field: ", PropOr(obj, "fieldName", "N/A")),
              LabelledStep("Crop:  ", PropOr(obj, "crop", "N/A")),
              LabelledStep("Start: ",
                  IF ~CanRead(obj) THEN PropOr(obj, "startTime", "")
                  ELSE Labelled("", IF Truthy(GetProp(obj, "startTime"))
                                    THEN toLocaleString(GetProp(obj, "startTime")) ELSE "N/A")),
              LabelledStep("Area:  ", AcresText(obj, "activity", "area")),
              Ok("")>>

\* The console.log calls of `fields create` after the --json test.
CreateSteps(obj, name) ==
    <<Ok(printSuccess("Field created: " \o name)),
      LabelledStep("Field ID: ", PropOr(obj, "id", "N/A"))>>

\* Running steps in order until one throws: the lines written and the error.
RunSteps(steps) ==
    LET bad == {i \in 1..Len(steps) : ~steps[i].ok}
        stop == IF bad = {} THEN Len(steps) + 1 ELSE CHOOSE i \in bad : \A j \in bad : i <= j
    IN  [lines |-> [i \in 1..(stop - 1) |-> steps[i].text],
         err |-> IF bad = {} THEN "" ELSE steps[stop].text]

-----------------------------------------------------------------------------
(* Inputs: command lines, and what the remote service may answer *)

Groups == {"fields", "farms", "boundaries", "harvest", "planting"}

\* An option is <<>> when it is not given, else <<its text>>.
LimitArgs == {<<>>, <<"100">>, <<"0">>, <<"10abc">>, <<"abc">>}

ApiKeyArgs == {<<>>, <<"">>, <<"key-A">>, <<"key-B">>}

AcresArgs == {<<>>, <<"120.5">>, <<"abc">>}

Ids == {"f1"}

Names == {"North Field"}

NoCmd == [group |-> "none", op |-> "none", json |-> FALSE, limit |-> <<>>,
          id |-> "", name |-> "", acres |-> <<>>, apiKey |-> <<>>]

ListCmds == {[NoCmd EXCEPT !.group = g, !.op = "list", !.json = j, !.limit = l] :
                g \in Groups, j \in BOOLEAN, l \in LimitArgs}

GetCmds == {[NoCmd EXCEPT !.group = g, !.op = "get", !.json = j, !.id = i] :
                g \in Groups, j \in BOOLEAN, i \in Ids}

CreateCmds == {[NoCmd EXCEPT !.group = "fields", !.op = "create", !.json = j,
                             !.name = n, !.acres = a] :
                j \in BOOLEAN, n \in Names, a \in AcresArgs}

\* The commands that call requireAuth.
AuthCmds == ListCmds \cup GetCmds \cup CreateCmds

LongName == "North Field of the Upper Valley by the Old River"

\* The farm of the specification's example.
RFarm == JObj(<<E("id", JStr("a1")), E("name", JStr("Farm A"))>>)

\* A record with every key the commands read; its id is longer than the 16
\* characters the tables keep and its name longer than the widest column.
RField == JObj(<<E("id", JStr("field-2024-000000001")), E("name", JStr(LongName)),
                 E("acres", JNum(120, 50)), E("farmName", JStr("Farm A")),
                 E("fieldCount", JInt(3)), E("fieldName", JStr("North Field")),
                 E("crop", JStr("CORN")), E("startTime", JStr(SampleTime)),
                 E("area", JInt(80))>>)

RNull == JObj(<<E("id", JStr("f2")), E("name", JNull), E("acres", JNull),
                E("area", JNull), E("fieldCount", JNull)>>)

ROdd == JObj(<<E("id", JInt(7)), E("name", JStr("")), E("acres", JStr("12")),
               E("area", JStr("12"))>>)

Records == {RFarm, RField, RNull, ROdd}

RECURSIVE SeqsUpTo(_, _)
SeqsUpTo(S, n) ==
    IF n = 0 THEN {<<>>}
    ELSE SeqsUpTo(S, n - 1) \cup {Append(q, x) : q \in {r \in SeqsUpTo(S, n - 1) : Len(r) = n - 1}, x \in S}

RecordArrays == {JArr(q) : q \in SeqsUpTo(Records, MaxRecs)}

\* Decoded bodies of a 2xx answer: a bare record, a bare array, the two
\* envelopes, envelopes with both keys, envelopes whose collection is no
\* array, null and the empty body.
Bodies ==
    Records \cup RecordArrays
    \cup {JObj(<<E("results", a)>>) : a \in RecordArrays}
    \cup {JObj(<<E("data", a)>>) : a \in RecordArrays}
    \cup {JObj(<<E("results", JArr(<<>>)), E("data", JArr(<<RFarm>>))>>),
          JObj(<<E("results", JArr(<<RFarm>>)), E("data", JArr(<<RField>>))>>),
          JObj(<<E("results", JNull), E("data", JArr(<<RFarm>>))>>),
          JObj(<<E("results", JStr("abc"))>>),
          JObj(<<E("data", JInt(5))>>),
          JArr(<<JNull>>),
          JNull, JStr("")}

Statuses == {400, 401, 403, 404, 429, 500}

\* Decoded bodies of a failed answer.
ErrorBodies ==
    {JObj(<<E("message", JStr("bad limit"))>>),
     JObj(<<E("error", JStr("server down"))>>),
     JObj(<<E("message", JStr("bad limit")), E("error", JStr("server down"))>>),
     JObj(<<E("message", JStr("")), E("error", JStr("server down"))>>),
     JObj(<<E("message", JNull), E("code", JInt(17))>>),
     JObj(<<>>), JStr("Bad Gateway"), JStr(""), JNull}

\* What the HTTP layer rejects with: an answer outside 2xx (axios keeps the
\* request too), a request that got no answer, or a failure before sending.
ResponseErrors ==
    {[oid |-> 1, message |-> "Request failed with status code " \o ToString(st),
      hasResponse |-> TRUE, status |-> st, data |-> d, hasRequest |-> rq] :
        st \in Statuses, d \in ErrorBodies, rq \in {TRUE}}

Failures ==
    ResponseErrors
    \cup {[oid |-> 2, message |-> "Request failed with status code 404",
           hasResponse |-> TRUE, status |-> 404, data |-> JNull, hasRequest |-> FALSE],
          [oid |-> 3, message |-> "timeout of 0ms exceeded", hasResponse |-> FALSE,
           status |-> 0, data |-> Undefined, hasRequest |-> TRUE],
          [oid |-> 4, message |-> "Network Error", hasResponse |-> FALSE,
           status |-> 0, data |-> Undefined, hasRequest |-> TRUE],
          [oid |-> 5, message |-> "Invalid URL", hasResponse |-> FALSE,
           status |-> 0, data |-> Undefined, hasRequest |-> FALSE],
          [oid |-> 6, message |-> "", hasResponse |-> FALSE,
           status |-> 0, data |-> Undefined, hasRequest |-> FALSE]}

NoResponse == [kind |-> "none", body |-> Undefined, error |-> NoError]

NoTable == [called |-> FALSE, data |-> Undefined]

-----------------------------------------------------------------------------
(* The process *)

\* The text of an option: its default when it is not given.
OptionText(arg, default) == IF arg = <<>> THEN default ELSE arg[1]

\* requireAuth's report
AuthRequired ==
    [err |-> <<printError("Climate FieldView credentials not configured.")>>,
     out |-> <<"\nRun the following to configure:",
               "  climatecom config set --api-key <key>">>]

\* The one API-client call of a command: the request it sends.
RequestOf(c) ==
    CASE c.op = "list" -> ListRequest(c.group, ParseInt(OptionText(c.limit, "50")))
      [] c.op = "get" -> GetRequest(c.group, c.id)
      [] OTHER -> CreateRequest(c.name,
                                IF Truthy(JStr(OptionText(c.acres, "")))
                                THEN ParseFloat(c.acres[1]) ELSE Undefined,
                                Undefined)

\* The body of a command's try block after the await, for the decoded body
\* data: the table printTable was given, the lines written and the error
\* thrown ("" when the block runs to its end).
Render(c, data) ==
    LET recs == ExtractRecords(data)
        tbl == printTable(recs.value, Columns(c.group))
        got == RunSteps(GetSteps(c.group, data, c.id))
        made == RunSteps(CreateSteps(data, c.name))
    IN  IF c.json
        THEN [table |-> NoTable, lines |-> <<printJson(data)>>, err |-> ""]
        ELSE IF c.op = "list"
        THEN IF ~recs.ok
             THEN [table |-> NoTable, lines |-> <<>>, err |-> recs.text]
             ELSE [table |-> [called |-> TRUE, data |-> recs.value],
                   lines |-> tbl.lines, err |-> tbl.err]
        ELSE IF c.op = "get"
        THEN [table |-> NoTable, lines |-> got.lines, err |-> got.err]
        ELSE [table |-> NoTable, lines |-> made.lines, err |-> made.err]

\* A catch block that reports the error object instead of its message.
CatchLines_WholeError(message) == <<printError("Error: " \o message)>>

\* The catch block of a command: printError(error.message); process.exit(1)
CatchLines(message) == <<printError(message)>>

Init ==
    /\ config \in {[DefaultConfig EXCEPT !.baseUrl = u] :
                      u \in {DefaultBaseUrl, "https://staging.example.test"}}
    /\ pc = "idle"
    /\ cmd = NoCmd
    /\ requests = <<>>
    /\ response = NoResponse
    /\ thrown = NoError
    /\ tableArg = NoTable
    /\ tableCols = <<>>
    /\ stdout = <<>>
    /\ stderr = <<>>
    /\ exitCode = NoExit

\* `config set`: stores a truthy --api-key, else reports that nothing was given.
ConfigSet(arg) ==
    /\ pc = "idle"
    /\ cmd' = [NoCmd EXCEPT !.group = "config", !.op = "set", !.apiKey = arg]
    /\ IF Truthy(JStr(OptionText(arg, "")))
       THEN /\ config' = setConfig("apiKey", arg[1])
            /\ stdout' = <<printSuccess("API key set")>>
            /\ stderr' = <<>>
       ELSE /\ config' = config
            /\ stdout' = <<>>
            /\ stderr' = <<printError("No options provided. Use --api-key")>>
    /\ pc' = "exited"
    /\ exitCode' = 0
    /\ UNCHANGED <<requests, response, thrown, tableArg, tableCols>>

\* `config show`: the key masked to its last four characters.
ConfigShow ==
    /\ pc = "idle"
    /\ cmd' = [NoCmd EXCEPT !.group = "config", !.op = "show"]
    /\ stdout' = <<"\nClimate FieldView CLI Configuration\n",
                   "API Key:  " \o (IF getConfig("apiKey") # ""
                                    THEN repeat("*", 8)
                                         \o SubSeq(getConfig("apiKey"),
                                                   Max(1, Len(getConfig("apiKey")) - 3),
                                                   Len(getConfig("apiKey")))
                                    ELSE "not set"),
                   "">>
    /\ pc' = "exited"
    /\ exitCode' = 0
    /\ UNCHANGED <<config, requests, response, thrown, tableArg, tableCols, stderr>>

\* An authenticated command up to its await: requireAuth, then the request.
Invoke(c) ==
    /\ pc = "idle"
    /\ cmd' = c
    /\ IF ~isConfigured
       THEN /\ stderr' = AuthRequired.err
            /\ stdout' = AuthRequired.out
            /\ pc' = "exited"
            /\ exitCode' = 1
            /\ requests' = requests
       ELSE /\ requests' = Append(requests, RequestOf(c))
            /\ pc' = "awaiting"
            /\ UNCHANGED <<stdout, stderr, exitCode>>
    /\ UNCHANGED <<config, response, thrown, tableArg, tableCols>>

\* The request is answered 2xx with the decoded body data: the rest of the
\* try block runs, and the catch block if rendering throws.
Succeed(data) ==
    LET r == Render(cmd, data)
    IN  /\ pc = "awaiting"
        /\ response' = [kind |-> "ok", body |-> data, error |-> NoError]
        /\ tableArg' = r.table
        /\ tableCols' = IF r.table.called THEN Columns(cmd.group) ELSE <<>>
        /\ stdout' = stdout \o r.lines
        /\ IF r.err = ""
           THEN stderr' = stderr /\ exitCode' = 0
           ELSE stderr' = stderr \o CatchLines(r.err) /\ exitCode' = 1
        /\ pc' = "exited"
        /\ UNCHANGED <<config, cmd, requests, thrown>>

\* The request fails with error: the API client's catch maps it with
\* handleApiError, withSpinner rethrows it, the command's catch reports it.
Fail(error) ==
    /\ pc = "awaiting"
    /\ response' = [kind |-> "fail", body |-> Undefined, error |-> error]
    /\ thrown' = handleApiError(error)
    /\ stderr' = stderr \o CatchLines(handleApiError(error).message)
    /\ exitCode' = 1
    /\ pc' = "exited"
    /\ UNCHANGED <<config, cmd, requests, tableArg, tableCols, stdout>>

\* The next invocation of the program: a new process over the same store.
NewRun ==
    /\ pc = "exited"
    /\ pc' = "idle"
    /\ cmd' = NoCmd
    /\ requests' = <<>>
    /\ response' = NoResponse
    /\ thrown' = NoError
    /\ tableArg' = NoTable
    /\ tableCols' = <<>>
    /\ stdout' = <<>>
    /\ stderr' = <<>>
    /\ exitCode' = NoExit
    /\ UNCHANGED config

Next ==
    \/ \E arg \in ApiKeyArgs : ConfigSet(arg)
    \/ ConfigShow
    \/ \E c \in AuthCmds : Invoke(c)
    \/ \E data \in Bodies : Succeed(data)
    \/ \E error \in Failures : Fail(error)
    \/ NewRun

Spec == Init /\ [][Next]_vars

-----------------------------------------------------------------------------
(* printTable on its own: the renderer applied to any column spec, inside *)
(* the try and catch the list commands wrap it in.                        *)

\* A label longer than the widest column.
LongLabel == "Name of the field as the grower registered it"

\* The column specs of the five list commands, and specs no command uses:
\* a label longer than 40 characters, and columns without a formatter.
TableColumnSpecs ==
    {Columns(g) : g \in Groups}
    \cup {<<Col("id", "ID", "id"), Col("name", LongLabel, "or"),
            Col("fieldCount", "Fields", "count")>>,
          <<Col("id", "ID", "none"), Col("name", "Name", "none"),
            Col("acres", "Acres", "none")>>,
          <<Col("name", LongLabel, "none")>>}

\* What printTable may be given: arrays of records, and no data at all.
TableData == RecordArrays \cup {Undefined, JNull}

TableInit ==
    /\ config = DefaultConfig
    /\ pc = "idle"
    /\ cmd = NoCmd
    /\ requests = <<>>
    /\ response = NoResponse
    /\ thrown = NoError
    /\ tableArg = NoTable
    /\ tableCols = <<>>
    /\ stdout = <<>>
    /\ stderr = <<>>
    /\ exitCode = NoExit

\* try { printTable(data, columns) } catch (error) { printError; exit(1) }
PrintTableCall(data, columns) ==
    LET tbl == printTable(data, columns)
    IN  /\ pc = "idle"
        /\ tableArg' = [called |-> TRUE, data |-> data]
        /\ tableCols' = columns
        /\ stdout' = tbl.lines
        /\ IF tbl.err = ""
           THEN stderr' = <<>> /\ exitCode' = 0
           ELSE stderr' = CatchLines(tbl.err) /\ exitCode' = 1
        /\ pc' = "exited"
        /\ UNCHANGED <<config, cmd, requests, response, thrown>>

TableNext ==
    \/ \E data \in TableData, columns \in TableColumnSpecs : PrintTableCall(data, columns)
    \/ NewRun

SpecTable == TableInit /\ [][TableNext]_vars

-----------------------------------------------------------------------------
(* Properties *)

Exited == pc = "exited"

ApiFailed == Exited /\ response.kind = "fail"

ApiSucceeded == Exited /\ response.kind = "ok"

\* C1: an authenticated command started with an empty apiKey prints the
\* configuration-required message, exits with status 1 and never issues an
\* HTTP request.
C1_NoKeyNoRequest ==
    (cmd \in AuthCmds /\ config.apiKey = "") =>
        /\ Exited
        /\ exitCode = 1
        /\ requests = <<>>
        /\ response.kind = "none"
        /\ stderr = <<"x Climate FieldView credentials not configured.">>
        /\ stdout = <<"\nRun the following to configure:",
                      "  climatecom config set --api-key <key>">>

C1_Witness == cmd \in AuthCmds /\ config.apiKey = "" /\ Exited /\ exitCode = 1

\* The message the claim C2 gives for a status and a body: m is the message
\* field, else the error field, else the stringified body, where a field that
\* is missing or falsy (null, empty) counts as not there.
C2_Message(status, body) ==
    CASE status = 401 -> "Authentication failed. Check your API key."
      [] status = 403 -> "Access forbidden. Check your API permissions."
      [] status = 404 -> "Resource not found."
      [] status = 429 -> "Rate limit exceeded. Please wait before retrying."
      [] OTHER ->
            "API Error (" \o ToString(status) \o "): "
            \o (IF body.t = "obj" /\ HasKey(body, "message") /\ Truthy(Lookup(body, "message"))
                THEN Lookup(body, "message").s
                ELSE IF body.t = "obj" /\ HasKey(body, "error") /\ Truthy(Lookup(body, "error"))
                THEN Lookup(body, "error").s
                ELSE Stringify(body, "", ""))

\* C2: a failure that carries an HTTP response maps 401, 403, 404 and 429 to
\* their fixed errors whatever the body, and every other status to
\* 'API Error (<status>): <m>' with m the body's message, else its error,
\* else the stringified body; the error is a function of status and body.
C2_StatusMapping ==
    (ApiFailed /\ response.error.hasResponse) =>
        /\ thrown.message = C2_Message(response.error.status, response.error.data)
        /\ thrown.oid = 0
        /\ (response.error.status = 500
            /\ response.error.data = JObj(<<E("message", JStr("bad limit")),
                                            E("error", JStr("server down"))>>))
           => thrown.message = "API Error (500): bad limit"
        /\ (response.error.status = 400 /\ response.error.data = JObj(<<>>))
           => thrown.message = "API Error (400): {}"

C2_Witness ==
    /\ ApiFailed
    /\ response.error.status = 500
    /\ response.error.data = JObj(<<E("message", JStr("bad limit")),
                                    E("error", JStr("server down"))>>)
    /\ stderr = <<"x API Error (500): bad limit">>

\* C3: a failure with a request but no response becomes the fixed network
\* error; one with neither is rethrown as the same object; one with both is
\* classified by its status.
C3_NetworkAndRethrow ==
    ApiFailed =>
        /\ (~response.error.hasResponse /\ response.error.hasRequest) =>
              /\ thrown.message = "No response from Climate FieldView API. Check your internet connection."
              /\ thrown.oid = 0
        /\ (~response.error.hasResponse /\ ~response.error.hasRequest) =>
              thrown = response.error
        /\ (response.error.hasResponse /\ response.error.hasRequest) =>
              thrown.message = C2_Message(response.error.status, response.error.data)

C3_Witness ==
    /\ ApiFailed
    /\ ~response.error.hasResponse
    /\ ~response.error.hasRequest
    /\ thrown.oid = 5
    /\ stderr = <<"x Invalid URL">>

\* C4: when the API-client call fails the command prints that error's
\* message with the error marker, exits with status 1 and prints no table,
\* labelled fields or JSON; no run issues more than one request.
C4_FailureReported ==
    /\ Len(requests) <= 1
    /\ ApiFailed =>
          /\ stderr = <<"x " \o thrown.message>>
          /\ stdout = <<>>
          /\ ~tableArg.called
          /\ exitCode = 1
          /\ Len(requests) = 1

C4_Witness ==
    /\ ApiFailed
    /\ response.error.status = 404
    /\ stderr = <<"x Resource not found.">>
    /\ Len(requests) = 1

\* C5: a command whose request returns 2xx exits with status 0 whatever the
\* decoded body; status 1 only follows a failed config check or API call.
C5_SuccessExitsZero == ApiSucceeded => exitCode = 0

C7_JsonListPrintsArray ==
    (ApiSucceeded /\ cmd.json /\ cmd.op = "list"
     /\ response.body.t = "obj" /\ HasKey(response.body, "results")
     /\ Lookup(response.body, "results").t = "arr") =>
        stdout = <<Stringify(Lookup(response.body, "results"), "  ", "")>>

\* The bodies the extraction rule is stated for: an envelope whose results
\* is an array, an envelope without results whose data is an array, a bare
\* array, and an object with neither key.
ClaimedShape(body) ==
    \/ body.t = "arr"
    \/ /\ body.t = "obj"
       /\ IF HasKey(body, "results") THEN Lookup(body, "results").t = "arr"
          ELSE HasKey(body, "data") => Lookup(body, "data").t = "arr"

\* The extraction rule as the specification words it, by presence of the key.
ExtractionRule(body) ==
    IF body.t = "obj" /\ HasKey(body, "results") THEN Lookup(body, "results")
    ELSE IF body.t = "obj" /\ HasKey(body, "data") THEN Lookup(body, "data")
    ELSE IF body.t = "arr" THEN body
    ELSE JArr(<<body>>)

\* Arrays whose members are all records (objects).
RecordArray(v) == v.t = "arr" /\ \A i \in 1..Len(v.a) : v.a[i].t = "obj"

\* The --limit values the claim C8 is checked for.
C8_Limits == {0, 50, 100}

\* What a rendered table of n rows looks like on stdout.
TableOf(n) ==
    IF n = 0 THEN stdout = <<"No results found.">>
    ELSE /\ Len(stdout) = n + 3
         /\ stdout[n + 3] = "\n" \o ToString(n) \o " result(s)"

\* C8: a configured list command issues exactly one GET to its list endpoint
\* with limit=L (50 when --limit is omitted) and in text mode renders exactly
\* the records the extraction rule yields, in number and order.
C8_ListOneRequestAllRecords ==
    (Exited /\ cmd \in ListCmds /\ config.apiKey # "") =>
        /\ \A L \in C8_Limits :
              ToString(L) = OptionText(cmd.limit, "50") =>
                 /\ Len(requests) = 1
                 /\ requests[1].method = "GET"
                 /\ requests[1].url = ListPath(cmd.group)
                 /\ requests[1].params = JObj(<<E("limit", JInt(L))>>)
        /\ (response.kind = "ok" /\ ~cmd.json /\ ClaimedShape(response.body)
            /\ RecordArray(ExtractionRule(response.body))) =>
              /\ tableArg.called
              /\ tableArg.data = ExtractionRule(response.body)
              /\ TableOf(Len(tableArg.data.a))

\* C9: for the shapes {results: [...]}, {data: [...]}, a bare sequence and a
\* bare object, extraction throws nothing and yields results if the key is
\* present, else data if present, else the sequence itself, else the object
\* wrapped; an empty results array yields the empty sequence.
C9_ExtractionTotal ==
    (ApiSucceeded /\ cmd.op = "list" /\ ~cmd.json /\ ClaimedShape(response.body)) =>
        /\ tableArg.called
        /\ tableArg.data.t = "arr"
        /\ tableArg.data = ExtractionRule(response.body)
        /\ (response.body.t = "obj" /\ HasKey(response.body, "results")
            /\ Lookup(response.body, "results") = JArr(<<>>))
           => (tableArg.data = JArr(<<>>) /\ stdout = <<"No results found.">>)

C9_Witness ==
    /\ ApiSucceeded
    /\ cmd.op = "list"
    /\ ~cmd.json
    /\ response.body = JObj(<<E("results", JArr(<<>>)), E("data", JArr(<<RFarm>>))>>)
    /\ tableArg = [called |-> TRUE, data |-> JArr(<<>>)]

\* C10: printTable prints only the 'No results found.' notice on an empty
\* sequence, and on N >= 1 records a header line, a separator line, N row
\* lines in input order and a final count line 'N result(s)'.
C10_TableLayout ==
    (Exited /\ tableArg.called /\ RecordArray(tableArg.data)) =>
        LET n == Len(tableArg.data.a)
            columns == Columns(cmd.group)
        IN  /\ TableOf(n)
            /\ n >= 1 =>
                  /\ stdout[1] = HeaderLine(tableArg.data.a, columns)
                  /\ stdout[2] = repeat("-", Len(stdout[1]))
                  /\ \A i \in 1..n :
                        stdout[i + 2] = RowLine(tableArg.data.a, columns, tableArg.data.a[i])

-----------------------------------------------------------------------------
(* The rendered table.                                                    *)

\* printTable was given a non-empty array and printed its table.
Rendered ==
    /\ pc = "exited"
    /\ tableArg.called
    /\ tableArg.data.t = "arr"
    /\ Len(tableArg.data.a) > 0
    /\ stderr = <<>>

\* The formatted value of column c in record i of the data.
CellText(c, i) == CellValue(tableCols[c], tableArg.data.a[i]).text

\* min(40, max(label length, longest formatted value)).
ClaimedWidth(c) ==
    LET lens == {Len(tableCols[c].label)}
                \cup {Len(CellText(c, i)) : i \in 1..Len(tableArg.data.a)}
        longest == CHOOSE x \in lens : \A y \in lens : y <= x
    IN  IF longest < 40 THEN longest ELSE 40

\* Where column c starts in a line whose cells have the claimed widths and
\* are joined by two spaces.
RECURSIVE ClaimedOffset(_)
ClaimedOffset(c) == IF c = 1 THEN 0 ELSE ClaimedOffset(c - 1) + ClaimedWidth(c - 1) + 2

\* A value cut to w characters, or filled with spaces up to w.
Shown(text, w) ==
    IF Len(text) > w THEN SubSeq(text, 1, w)
    ELSE text \o repeat(" ", w - Len(text))

\* C11: a column is min(40, max(label length, longest formatted value)) wide;
\* a value longer than the width is cut to exactly the width, and no value is
\* rendered wider than 40.
C11_WidthAndTruncation ==
    Rendered =>
        \A c \in 1..Len(tableCols) : \A i \in 1..Len(tableArg.data.a) :
            LET w == ClaimedWidth(c)
                off == ClaimedOffset(c)
                line == stdout[i + 2]
            IN  /\ w <= 40
                /\ Len(line) >= off + w
                /\ SubSeq(line, off + 1, off + w) = Shown(CellText(c, i), w)
                /\ IF c = Len(tableCols) THEN Len(line) = off + w
                   ELSE /\ Len(line) >= off + w + 2
                        /\ SubSeq(line, off + w + 1, off + w + 2) = "  "

\* A table with a value of 48 characters, cut to the 40 of its column.
C11_Witness ==
    /\ Rendered
    /\ \E c \in 1..Len(tableCols) : \E i \in 1..Len(tableArg.data.a) :
          /\ CellText(c, i) = LongName
          /\ ClaimedWidth(c) = 40
          /\ SubSeq(stdout[i + 2], ClaimedOffset(c) + 1, ClaimedOffset(c) + 40)
                = SubSeq(LongName, 1, 40)

TypedRecords ==
    /\ pc = "exited"
    /\ tableArg.called
    /\ tableArg.data.t = "arr"
    /\ Len(tableArg.data.a) > 0
    /\ \A i \in 1..Len(tableArg.data.a) : tableArg.data.a[i] \in {RFarm, RField, RNull}

\* The value of column c in record i is missing, undefined or null.
Missing(c, i) == GetProp(tableArg.data.a[i], tableCols[c].key).t \in {"undef", "null"}

\* C13: a value that is missing, undefined or null never makes rendering
\* fail and renders as the placeholder N/A, never as an empty cell or as the
\* text 'undefined' or 'null'.
C13_MissingIsPlaceholder ==
    TypedRecords =>
        /\ stderr = <<>>
        /\ \A c \in 1..Len(tableCols) : \A i \in 1..Len(tableArg.data.a) :
              Missing(c, i) =>
                  SubSeq(stdout[i + 2], ClaimedOffset(c) + 1, ClaimedOffset(c) + ClaimedWidth(c))
                      = Shown("N/A", ClaimedWidth(c))

-----------------------------------------------------------------------------
(* The stored key and the requests.                                       *)

\* This step is a `config set`.
ConfigSetStep == pc = "idle" /\ cmd'.group = "config" /\ cmd'.op = "set"

\* The key the `config set` of this step was given, "" if none.
GivenKey == IF cmd'.apiKey = <<>> THEN "" ELSE cmd'.apiKey[1]

\* What a step does to the store.
StoreStep ==
    /\ (ConfigSetStep /\ GivenKey # "") =>
          config' = [config EXCEPT !.apiKey = GivenKey]
    /\ (ConfigSetStep /\ GivenKey = "") =>
          /\ config' = config
          /\ requests' = requests
          /\ stdout' = <<>>
          /\ stderr' = <<"x No options provided. Use --api-key">>
    /\ ~ConfigSetStep => config' = config

\* The requests issued carry the stored key and go to the fixed base URL.
RequestsOfStoredKey ==
    \A i \in 1..Len(requests) :
        /\ config.apiKey # ""
        /\ requests[i].headers.Authorization = "Bearer " \o config.apiKey
        /\ requests[i].baseURL = "https://platform.climate.com"

\* C14: every request carries Authorization: Bearer K, K the stored apiKey,
\* which is the key of the most recent `config set --api-key` with a
\* non-empty key; a `config set` without a key leaves the store unchanged and
\* only reports an error; the request target is the fixed base URL whatever
\* the stored baseUrl.
C14_BearerOfStoredKey == []RequestsOfStoredKey /\ [][StoreStep]_vars

\* A request under the second key set, while the store names another base URL.
C14_Witness ==
    /\ Len(requests) = 1
    /\ cmd.op = "get"
    /\ config = [apiKey |-> "key-B", baseUrl |-> "https://staging.example.test"]
    /\ requests[1].headers.Authorization = "Bearer key-B"
    /\ requests[1].baseURL = "https://platform.climate.com"

=============================================================================
